---- MODULE Spec2Model ----
(***************************************************************************)
(* A model of the resilient operation engine of py-aci-upgrade:            *)
(*   - util.loop_for and util.login_loop_for (the retry loop and the       *)
(*     session acquisition loop), over a discrete clock;                   *)
(*   - util.panic_gate / util.workflow_gate and upgrade.run (the gating    *)
(*     pipeline);                                                          *)
(*   - upgrade.MaintGroup.verify_complete (the completion tracker).        *)
(* Time is an integer clock `now`.  time.sleep(n) advances it by n, a call *)
(* of the operation and a login attempt advance it by a duration chosen    *)
(* by the environment.  The two reads of time.time() at util.py:283 and    *)
(* util.py:285 are taken at the same instant.                              *)
(***************************************************************************)
EXTENDS Integers, Sequences, FiniteSets, TLC

\* ------------------------------------------------------------------ bounds
\* Largest positive deadline handed to loop_for / login_loop_for.
MaxDeadline == 4
\* Largest retry_interval / login_interval of the configuration.
MaxInterval == 2
\* Longest duration (in ticks) of one call of the operation or one login.
MaxOpDur == 1
\* The counter of operation calls saturates here.
MaxCalls == 3

\* ------------------------------------------------------- values of the code
\* class State(Enum)
OK == "OK"
FAIL == "FAIL"
PENDING == "PENDING"
\* Python's None, for a client that could not be acquired.
None == 0
\* The sentinel deadline of `once = x == -1`.
OnceSentinel == -1

\* The deadlines tried: the sentinel, another negative value, zero, and the
\* positive ones.
DeadlineSet == {-2, OnceSentinel} \cup (0..MaxDeadline)
IntervalSet == 1..MaxInterval
DurSet == 0..MaxOpDur

VARIABLES
    now,            \* time.time()
    pc,             \* control location
    caller,         \* who called login_loop_for: "loop_for", "run" or "top"
    \* --- loop_for
    x,              \* the deadline argument
    client,         \* the Client in use: None, or the identity of the object
    client0,        \* the client argument loop_for was called with
    once,
    start_time,
    retry_int,
    remaining_time,
    state,          \* what the last call of fn produced (a State or an exception)
    result,         \* what loop_for returned
    \* --- login_loop_for
    l_x,
    l_start_time,
    l_once,
    login_int,
    l_fails,        \* failed login attempts of the current login_loop_for call
    \* --- observations of the run (not program state)
    calls,          \* calls of fn started, saturating at MaxCalls
    afterFail,      \* a call of fn was started after fn had returned FAIL
    excSeen,        \* fn has raised an exception
    lastRetAt,      \* the time at which the last call of fn ended
    clean,          \* k >= 0: so far fn returned PENDING k times, each in no
                    \* time, and every login succeeded at once; -1 otherwise
    \* --- upgrade.run
    groups,         \* client.args["firmware_groups"]
    stage,          \* the position of the stage in hand (1 = backup, ...)
    started,        \* the positions of the stages started, in order
    outcomes,       \* what the stages that returned have returned, in order
    r_result,       \* how run ended: a State, "exit" or "raised"
    exit_code,      \* the status given to exit(), -1 while the process runs
    reported,       \* the stage named by log.error("Failed upgrade on ...")
    \* --- MaintGroup
    device_count,   \* self.device_count
    jobs,           \* the records the last get_maint_job returned
    v_state,        \* what the last verify_complete returned
    \* --- upgrade_apics / upgrade_switches (one upgrade stage)
    st_fn,          \* the stage function running, "none" outside a stage
    posts,          \* trigger requests (POST) sent by the stage
    st_result,      \* what the stage returned, or "raised"
    st_already,     \* what is_already_upgraded returned ("none" before)
    st_all_done,    \* every record it read was completeok at the target
    st_downloaded,  \* what is_firmware_downloaded returned ("none" before)
    st_staged,      \* a record it read was the target version, downloaded
    st_code,        \* status code of the trigger request, 0 before it
    st_online,      \* records is_already_upgraded's query gave, -1 before it
    \* --- the post-change comparisons of pre_post
    c_check,        \* the comparison under study: faults, devices or routes
    c_previous,     \* the snapshot's records of that kind
    c_current,      \* the live records of that kind
    c_has_tep,      \* some physical pod has a tepPool (routes are queried)
    c_state,        \* what the last comparison returned
    c_before,       \* what the comparison before it returned
    c_only_added,   \* since the last comparison records have only appeared
    c_grew,         \* c_only_added as it was when the last comparison ran
    c_fresh,        \* the live records are those the last comparison read
    \* --- run_checks / run_post_checks (one registry of checks)
    k_registry,     \* the registry that runs: "health" or "post"
    k_i,            \* how many checks of the registry the run has called
    k_called,       \* the checks called in this run, in the order of the calls
    k_states,       \* what each of them returned
    k_result,       \* what the run returned, "raised", or "none" while it runs
    k_runs,         \* registry runs started
    \* --- the phases pre_post.init, pre_post.run and health.run
    ph_entry,       \* the phase function called last, "none" before the first
    ph_calls,       \* phase calls made
    ph_result,      \* what the call returned, the exception it raised, or "none"
    snap_file,      \* the snapshot file: absent, empty, or written with data
    data,           \* load_snapshot's local `data`
    snapshot_exists, \* pre_post.run's local of that name
    snapshot,       \* what load_snapshot returned to pre_post.run
    ld_outcome,     \* how load_snapshot ended in this call: returned, raised
    captured,       \* the data that went into the snapshot file
    \* --- Client: the session and its renewal (clock in minutes)
    last_refresh,   \* Client.last_refresh
    sent_kind,      \* the method that sent the last remote call, "none" before
    sent_age,       \* the age of the session when that call was sent
    \* --- an operator interrupt (KeyboardInterrupt) at a sleep point
    interrupt,      \* the sleep point it was delivered at, "none" before
    unwound,        \* the exception that left loop_for with it, "none" before
    \* --- workflow_gate called on its own
    g_args,         \* the states workflow_gate was called with, in order
    g_rets,         \* what the calls that returned gave back
    g_exit,         \* the exit status of the process, -1 while it runs
    \* --- main.main
    m_pc,           \* where main.main is: "none" outside it
    m_group,        \* index of the firmware group the loop of main is at
    firmware_groups, \* number of groups in config["firmware_groups"]
    m_log,          \* the stage calls main made, each with what it gave
    m_result        \* what main returned, "none" before, "raised" for an exception

loopVars == <<x, client, client0, once, start_time, retry_int, remaining_time,
              state, result>>
loginVars == <<l_x, l_start_time, l_once, login_int, l_fails>>
obsVars == <<calls, afterFail, excSeen, lastRetAt, clean>>
runVars == <<groups, stage, started, outcomes, r_result, exit_code, reported>>
mgVars == <<device_count, jobs, v_state>>
stVars == <<st_fn, posts, st_result, st_already, st_all_done, st_downloaded,
            st_staged, st_code, st_online>>
\* The variables that loop_for, login_loop_for, upgrade.run and
\* verify_complete on its own leave alone.
cmpVars == <<c_check, c_previous, c_current, c_has_tep, c_state, c_before,
             c_only_added, c_grew, c_fresh>>
\* The variables declared after those of the upgrade stage.
chkVars == <<k_registry, k_i, k_called, k_states, k_result, k_runs>>
phVars == <<ph_entry, ph_calls, ph_result, snap_file, data,
            snapshot_exists, snapshot, ld_outcome, captured>>
cliVars == <<last_refresh, sent_kind, sent_age>>
intVars == <<interrupt, unwound>>
gateVars == <<g_args, g_rets, g_exit>>
mainVars == <<m_pc, m_group, firmware_groups, m_log, m_result>>
\* The variables declared after those of the Client.
laterVars == <<intVars, gateVars, mainVars>>
afterStage == <<cmpVars, chkVars, phVars, cliVars, laterVars>>
restVars == <<stVars, afterStage>>
vars == <<now, pc, caller, loopVars, loginVars, obsVars, runVars, mgVars,
          restVars>>

Min(a, b) == IF a < b THEN a ELSE b

\* A Client object other than `c`: Client(config) builds a new object each time.
NewClient(c) == IF c = 1 THEN 2 ELSE 1

\* ------------------------------------------------------------ login_loop_for
\* `while time.time() - start_time < x or once`
LoginCond == (now - l_start_time < l_x) \/ l_once

\* The call login_loop_for(rem, ...) made at time t: x, start_time and once.
EnterLogin(t, rem) ==
    /\ l_x' = rem
    /\ l_start_time' = t
    /\ l_once' = (rem = OnceSentinel)
    /\ l_fails' = 0
    /\ UNCHANGED login_int
    /\ pc' = "login_test"

\* Where login_loop_for returns to: loop_for's loop, upgrade.run, or the
\* caller of a call made on its own.
ReturnPc ==
    CASE caller = "loop_for" -> "loop_test"
      [] caller = "run" -> "run_logged_in"
      [] caller = "pre_post" -> "ph_logged_in"
      [] OTHER -> "done"

\* A variant of LoginEnter that forgets `once = False`.
LoginEnter_KeepsOnce ==
    /\ pc = "login_test"
    /\ LoginCond
    /\ pc' = "login_try"
    /\ UNCHANGED <<restVars, runVars, mgVars, now, caller, loopVars, loginVars, obsVars>>

\* The loop condition holds: `once = False`, and the try block is entered.
LoginEnter ==
    /\ pc = "login_test"
    /\ LoginCond
    /\ l_once' = FALSE
    /\ pc' = "login_try"
    /\ UNCHANGED <<restVars, runVars, mgVars, now, caller, loopVars, l_x, l_start_time, login_int, l_fails, obsVars>>

\* The loop condition fails: the function falls off its end and returns None.
LoginExit ==
    /\ pc = "login_test"
    /\ ~LoginCond
    /\ client' = None
    /\ pc' = ReturnPc
    /\ clean' = -1
    /\ UNCHANGED <<restVars, runVars, mgVars, now, caller, x, client0, once, start_time, retry_int,
                   remaining_time, state, result, loginVars,
                   calls, afterFail, excSeen, lastRetAt>>

\* Client(config) succeeds: `return client`.
LoginOK ==
    /\ pc = "login_try"
    /\ \E d \in DurSet :
        /\ now' = now + d
        /\ clean' = IF d = 0 /\ l_fails = 0 THEN clean ELSE -1
    /\ client' = NewClient(client)
    /\ pc' = ReturnPc
    /\ UNCHANGED <<restVars, runVars, mgVars, caller, x, client0, once, start_time, retry_int,
                   remaining_time, state, result, loginVars,
                   calls, afterFail, excSeen, lastRetAt>>

\* A variant of LoginFail that retries without time.sleep(login_int).
LoginFail_NoSleep ==
    /\ pc = "login_try"
    /\ \E d \in DurSet : now' = now + d
    /\ l_fails' = l_fails + 1
    /\ pc' = "login_test"
    /\ clean' = -1
    /\ UNCHANGED <<restVars, runVars, mgVars, caller, loopVars, l_x, l_start_time, l_once, login_int,
                   calls, afterFail, excSeen, lastRetAt>>

\* Client(config) raises (Exception("Login error."), AuthException, a
\* transport error): `except Exception` logs and sleeps login_int.
LoginFail ==
    /\ pc = "login_try"
    /\ \E d \in DurSet : now' = now + d + login_int
    /\ l_fails' = l_fails + 1
    /\ pc' = "login_test"
    /\ clean' = -1
    /\ UNCHANGED <<restVars, runVars, mgVars, caller, loopVars, l_x, l_start_time, l_once, login_int,
                   calls, afterFail, excSeen, lastRetAt>>

\* ------------------------------------------------------------------ loop_for
\* A variant of LoopCond whose deadline test is inclusive (<=).
LoopCond_Inclusive == client # None /\ ((now - start_time <= x) \/ once)

\* `while client is not None and (time.time() - start_time < x or once)`
LoopCond == client # None /\ ((now - start_time < x) \/ once)

\* A variant of LoopEnter that forgets `once = False`.
LoopEnter_KeepsOnce ==
    /\ pc = "loop_test"
    /\ LoopCond
    /\ remaining_time' = x - (now - start_time)
    /\ pc' = "loop_call"
    /\ UNCHANGED <<restVars, runVars, mgVars, now, caller, x, client, client0, once, start_time, retry_int,
                   state, result, loginVars, obsVars>>

\* The loop condition holds: once, elapsed_time and remaining_time are set.
LoopEnter ==
    /\ pc = "loop_test"
    /\ LoopCond
    /\ once' = FALSE
    /\ remaining_time' = x - (now - start_time)
    /\ pc' = "loop_call"
    /\ UNCHANGED <<restVars, runVars, mgVars, now, caller, x, client, client0, start_time, retry_int,
                   state, result, loginVars, obsVars>>

\* A variant of LoopExit that leaves the loop only for want of a Client.
LoopExit_NoDeadline ==
    /\ pc = "loop_test"
    /\ client = None
    /\ result' = FAIL
    /\ pc' = "done"
    /\ UNCHANGED <<restVars, runVars, mgVars, now, caller, x, client, client0, once, start_time, retry_int,
                   remaining_time, state, loginVars, obsVars>>

\* The loop condition fails: "Exceeded retry timeout", return State.FAIL.
LoopExit ==
    /\ pc = "loop_test"
    /\ ~LoopCond
    /\ result' = FAIL
    /\ pc' = "done"
    /\ UNCHANGED <<restVars, runVars, mgVars, now, caller, x, client, client0, once, start_time, retry_int,
                   remaining_time, state, loginVars, obsVars>>

\* What every call of fn does to the observations.
Called(out, d) ==
    /\ calls' = Min(calls + 1, MaxCalls)
    /\ afterFail' = (afterFail \/ state = FAIL)
    /\ excSeen' = (excSeen \/ out \notin {OK, PENDING, FAIL})
    /\ lastRetAt' = now + d
    /\ clean' = IF clean >= 0 /\ d = 0 /\ out \in {OK, PENDING}
                THEN (IF out = PENDING THEN clean + 1 ELSE clean)
                ELSE -1

\* fn(client) returns State.OK: `return state`.
FnOK ==
    /\ pc = "loop_call"
    /\ \E d \in DurSet : now' = now + d /\ Called(OK, d)
    /\ state' = OK
    /\ result' = OK
    /\ pc' = "done"
    /\ UNCHANGED <<restVars, runVars, mgVars, caller, x, client, client0, once, start_time, retry_int,
                   remaining_time, loginVars>>

\* A variant of FnPending that returns the state at once, as for State.OK.
FnPending_ReturnsState ==
    /\ pc = "loop_call"
    /\ \E d \in DurSet : now' = now + d /\ Called(PENDING, d)
    /\ state' = PENDING
    /\ result' = PENDING
    /\ pc' = "done"
    /\ UNCHANGED <<restVars, runVars, mgVars, caller, x, client, client0, once, start_time, retry_int,
                   remaining_time, loginVars>>

\* fn(client) returns State.PENDING: sleep retry_int, then
\* client = login_loop_for(remaining_time, client.args).
FnPending ==
    /\ pc = "loop_call"
    /\ \E d \in DurSet :
        /\ now' = now + d + retry_int
        /\ Called(PENDING, d)
        /\ EnterLogin(now + d + retry_int, remaining_time)
    /\ state' = PENDING
    /\ UNCHANGED <<restVars, runVars, mgVars, caller, x, client, client0, once, start_time, retry_int,
                   remaining_time, result>>

\* A variant of FnFail that returns State.FAIL at once, without retrying.
FnFail_ReturnsAtOnce ==
    /\ pc = "loop_call"
    /\ \E d \in DurSet : now' = now + d /\ Called(FAIL, d)
    /\ state' = FAIL
    /\ result' = FAIL
    /\ pc' = "done"
    /\ UNCHANGED <<restVars, runVars, mgVars, caller, x, client, client0, once, start_time, retry_int,
                   remaining_time, loginVars>>

\* fn(client) returns State.FAIL (the else branch): as for PENDING, with
\* fail_msg "Action failed. Trying again in {}s...".
FnFail ==
    /\ pc = "loop_call"
    /\ \E d \in DurSet :
        /\ now' = now + d + retry_int
        /\ Called(FAIL, d)
        /\ EnterLogin(now + d + retry_int, remaining_time)
    /\ state' = FAIL
    /\ UNCHANGED <<restVars, runVars, mgVars, caller, x, client, client0, once, start_time, retry_int,
                   remaining_time, result>>

\* fn(client) raises requests Timeout: sleep retry_int, no login.
FnTimeout ==
    /\ pc = "loop_call"
    /\ \E d \in DurSet : now' = now + d + retry_int /\ Called("Timeout", d)
    /\ state' = "Timeout"
    /\ pc' = "loop_test"
    /\ UNCHANGED <<restVars, runVars, mgVars, caller, x, client, client0, once, start_time, retry_int,
                   remaining_time, result, loginVars>>

\* A variant of FnConnectionError that gives up: loop_for returns State.FAIL.
FnConnectionError_GivesUp ==
    /\ pc = "loop_call"
    /\ \E d \in DurSet : now' = now + d /\ Called("ConnectionError", d)
    /\ state' = "ConnectionError"
    /\ result' = FAIL
    /\ pc' = "done"
    /\ UNCHANGED <<restVars, runVars, mgVars, caller, x, client, client0, once, start_time, retry_int,
                   remaining_time, loginVars>>

\* fn(client) raises ConnectionError: login at once, no sleep.
FnConnectionError ==
    /\ pc = "loop_call"
    /\ \E d \in DurSet :
        /\ now' = now + d
        /\ Called("ConnectionError", d)
        /\ EnterLogin(now + d, remaining_time)
    /\ state' = "ConnectionError"
    /\ UNCHANGED <<restVars, runVars, mgVars, caller, x, client, client0, once, start_time, retry_int,
                   remaining_time, result>>

\* A variant of FnAuthException that tries again with the Client it has.
FnAuthException_NoLogin ==
    /\ pc = "loop_call"
    /\ \E d \in DurSet : now' = now + d /\ Called("AuthException", d)
    /\ state' = "AuthException"
    /\ pc' = "loop_test"
    /\ UNCHANGED <<restVars, runVars, mgVars, caller, x, client, client0, once, start_time, retry_int,
                   remaining_time, result, loginVars>>

\* fn(client) raises AuthException: login at once, no sleep.
FnAuthException ==
    /\ pc = "loop_call"
    /\ \E d \in DurSet :
        /\ now' = now + d
        /\ Called("AuthException", d)
        /\ EnterLogin(now + d, remaining_time)
    /\ state' = "AuthException"
    /\ UNCHANGED <<restVars, runVars, mgVars, caller, x, client, client0, once, start_time, retry_int,
                   remaining_time, result>>

\* fn(client) raises any other Exception: sleep retry_int, then login.
FnException ==
    /\ pc = "loop_call"
    /\ \E d \in DurSet :
        /\ now' = now + d + retry_int
        /\ Called("Exception", d)
        /\ EnterLogin(now + d + retry_int, remaining_time)
    /\ state' = "Exception"
    /\ UNCHANGED <<restVars, runVars, mgVars, caller, x, client, client0, once, start_time, retry_int,
                   remaining_time, result>>

\* ------------------------------------------------- gating and upgrade.run
\* `res.status_code != 200`
HttpOK == 200
StatusSet == {HttpOK, 500}

\* How a call ends: it returns a value, raises an exception, or exits the
\* process (exit() raises SystemExit, which no handler here catches).
Return(v) == [kind |-> "return", val |-> v, msg |-> ""]
Raise(e, m) == [kind |-> "raise", val |-> e, msg |-> m]
Exit(code) == [kind |-> "exit", val |-> code, msg |-> ""]

\* A variant of workflow_gate that exits with status 0.
workflow_gate_ExitZero(s) == IF s = FAIL THEN Exit(0) ELSE Return(s)

\* workflow_gate(state): exit(1) on FAIL, else the state.
workflow_gate(s) == IF s = FAIL THEN Exit(1) ELSE Return(s)

\* A variant of panic_gate that gates nothing: it returns the state.
panic_gate_NoGate(s, message) == Return(s)

\* panic_gate(fn, message), with s what fn() returned:
\* state = workflow_gate(fn()); raise GatingEvent(message) on FAIL.
panic_gate(s, message) ==
    LET g == workflow_gate(s)
    IN  IF g.kind # "return" THEN g
        ELSE IF g.val = FAIL THEN Raise("GatingEvent", message)
        ELSE Return(g.val)

\* backup(client, timeout): the trigger request answered with `status`, then
\* loop_for(timeout, client, verify_completion) returning `loop`.
backup(status, loop) == IF status # HttpOK THEN FAIL ELSE loop

\* tech_support(client, timeout): as backup.
tech_support(status, loop) == IF status # HttpOK THEN FAIL ELSE loop

\* upgrade_apics(client, timeout): is_already_upgraded, is_firmware_downloaded,
\* the trigger request, then loop_for(3600, client, group.verify_complete).
upgrade_apics(already, downloaded, status, loop) ==
    IF already THEN OK
    ELSE IF ~downloaded THEN FAIL
    ELSE IF status # HttpOK THEN FAIL
    ELSE loop

\* upgrade_switches(fw_group, client, timeout): the same steps for one group.
upgrade_switches(already, downloaded, status, loop) ==
    IF already THEN OK
    ELSE IF ~downloaded THEN FAIL
    ELSE IF status # HttpOK THEN FAIL
    ELSE loop

\* The names a firmware group can have, and the lists of them.
GroupNames == {"odd", "even"}
MaxGroups == 2
GroupLists == UNION {[1..n -> GroupNames] : n \in 0..MaxGroups}

\* The stages of run, by position: three fixed ones, then one per group.
NumStages == 3 + Len(groups)

\* The message panic_gate is given for the stage at position i.
StageName(i) ==
    CASE i = 1 -> "backup"
      [] i = 2 -> "tech support"
      [] i = 3 -> "APIC upgrade"
      [] OTHER -> IF groups[i - 3] = "odd" THEN "odd switch upgrade"
                  ELSE "even switch upgrade"

\* What the stage function at position i returns.
StageFn(i, already, downloaded, status, loop) ==
    CASE i = 1 -> backup(status, loop)
      [] i = 2 -> tech_support(status, loop)
      [] i = 3 -> upgrade_apics(already, downloaded, status, loop)
      [] OTHER -> upgrade_switches(already, downloaded, status, loop)

\* run(client=None, timeout): `client = login_loop_for(timeout, config)`.
RunLogin ==
    /\ pc = "run_entry"
    /\ client = None
    /\ EnterLogin(now, x)
    /\ UNCHANGED <<restVars, now, caller, loopVars, obsVars, runVars, mgVars>>

\* `if client is None: return State.FAIL` after the login.
RunNoClient ==
    /\ pc = "run_logged_in"
    /\ client = None
    /\ r_result' = FAIL
    /\ pc' = "done"
    /\ UNCHANGED <<restVars, now, caller, loopVars, loginVars, obsVars, mgVars,
                   groups, stage, started, outcomes, exit_code, reported>>

\* A client is at hand: the try block is entered with the first stage.
RunTry ==
    /\ pc \in {"run_entry", "run_logged_in"}
    /\ client # None
    /\ stage' = 1
    /\ pc' = "run_gate"
    /\ UNCHANGED <<restVars, now, caller, loopVars, loginVars, obsVars, mgVars,
                   groups, started, outcomes, r_result, exit_code, reported>>

\* panic_gate calls the stage function of the stage in hand.
RunStageStart ==
    /\ pc = "run_gate"
    /\ started' = Append(started, stage)
    /\ pc' = "run_in_stage"
    /\ UNCHANGED <<restVars, now, caller, loopVars, loginVars, obsVars, mgVars,
                   groups, stage, outcomes, r_result, exit_code, reported>>

\* The stage function raises: its trigger request (client.request, outside
\* any loop_for) or a query of MaintGroup fails, and the exception leaves run.
RunStageRaises ==
    /\ pc = "run_in_stage"
    /\ r_result' = "raised"
    /\ pc' = "done"
    /\ UNCHANGED <<restVars, now, caller, loopVars, loginVars, obsVars, mgVars,
                   groups, stage, started, outcomes, exit_code, reported>>

\* The stage function returns and panic_gate acts on its state: the next
\* stage, `return State.OK` after the last one, the exit of workflow_gate,
\* or the GatingEvent caught by run (`log.error`, `return State.FAIL`).
RunStageReturns ==
    /\ pc = "run_in_stage"
    /\ \E already, downloaded \in BOOLEAN, status \in StatusSet, loop \in {OK, FAIL} :
        LET s == StageFn(stage, already, downloaded, status, loop)
            g == panic_gate(s, StageName(stage))
        IN  /\ outcomes' = Append(outcomes, s)
            /\ CASE g.kind = "exit" ->
                      /\ r_result' = "exit"
                      /\ exit_code' = g.val
                      /\ pc' = "done"
                      /\ UNCHANGED <<restVars, stage, reported>>
                 [] g.kind = "raise" ->
                      /\ r_result' = FAIL
                      /\ reported' = g.msg
                      /\ pc' = "done"
                      /\ UNCHANGED <<restVars, stage, exit_code>>
                 [] OTHER ->
                      /\ IF stage < NumStages
                         THEN stage' = stage + 1 /\ pc' = "run_gate"
                              /\ UNCHANGED r_result
                         ELSE r_result' = OK /\ pc' = "done"
                              /\ UNCHANGED stage
                      /\ UNCHANGED <<restVars, exit_code, reported>>
    /\ UNCHANGED <<restVars, now, caller, loopVars, loginVars, obsVars, mgVars,
                   groups, started>>

\* ---------------------------------------------------------------- MaintGroup
\* The target version of the group (self.version_str) and another one.
version_str == "n9000-target"
\* job.get(...) of a key the record lacks.
Absent == "None"
UpgradeStatusSet == {"completeok", "inprogress", Absent}
VersionSet == {version_str, "n9000-old", Absent}
JobRecords == [upgradeStatus : UpgradeStatusSet, desiredVersion : VersionSet]
MaxJobs == 2
JobLists == UNION {[1..n -> JobRecords] : n \in 0..MaxJobs}

\* The body of `for job in jobs` from record i on, with `st` the state so far.
RECURSIVE VerifyLoop(_, _, _)
VerifyLoop(js, i, st) ==
    IF i > Len(js) THEN st
    ELSE LET status == js[i].upgradeStatus
             job_ver == js[i].desiredVersion
             s1 == IF status # "completeok" THEN PENDING ELSE st
             s2 == IF job_ver # version_str THEN PENDING ELSE s1
         IN  VerifyLoop(js, i + 1, s2)

\* A variant of verify_complete that fails when devices are missing.
verify_complete_FailsOffline(js, count) ==
    IF Len(js) < count THEN FAIL ELSE VerifyLoop(js, 1, OK)

\* A variant of verify_complete without the `len(jobs) < self.device_count` test.
verify_complete_NoCount(js, count) == VerifyLoop(js, 1, OK)

\* MaintGroup.verify_complete, on the records js that get_maint_job returned.
verify_complete(js, count) ==
    VerifyLoop(js, 1, IF Len(js) < count THEN PENDING ELSE OK)

\* loop_for polls: group.verify_complete(client) with the records of the moment.
VerifyComplete ==
    /\ pc = "mg_ready"
    /\ \E js \in JobLists :
        /\ jobs' = js
        /\ v_state' = verify_complete(js, device_count)
    /\ UNCHANGED <<restVars, now, pc, caller, loopVars, loginVars, obsVars, runVars,
                   device_count>>

\* ------------------------------------ upgrade_apics and upgrade_switches
\* A job record is done: completeok at the target version.
JobDone(r) == r.upgradeStatus = "completeok" /\ r.desiredVersion = version_str

\* The loop of is_already_upgraded from record i on: the first record that is
\* not at the target version, or is but is not done, returns False.
RECURSIVE AlreadyLoop(_, _)
AlreadyLoop(js, i) ==
    IF i > Len(js) THEN TRUE
    ELSE LET is_target_ver == js[i].desiredVersion = version_str
             is_done == js[i].upgradeStatus = "completeok"
         IN  IF ~is_target_ver \/ (is_target_ver /\ ~is_done)
             THEN FALSE
             ELSE AlreadyLoop(js, i + 1)

\* A variant of is_already_upgraded with the answer inverted.
is_already_upgraded_Inverted(js) == ~AlreadyLoop(js, 1)

\* MaintGroup.is_already_upgraded over the job records it fetched.
is_already_upgraded(js) == AlreadyLoop(js, 1)

\* firmwareFirmware records: fullVersion and dnldStatus as record.get reads.
DnldStatusSet == {"downloaded", "downloading", Absent}
FwRecords == [fullVersion : VersionSet, dnldStatus : DnldStatusSet]
MaxFirmware == 2
FwLists == UNION {[1..n -> FwRecords] : n \in 0..MaxFirmware}

\* The loop of is_firmware_downloaded from record i on, with the flag so far.
RECURSIVE FirmwareLoop(_, _, _)
FirmwareLoop(fw, i, flag) ==
    IF i > Len(fw) THEN flag
    ELSE LET is_target_ver == fw[i].fullVersion = version_str
             is_downloaded == fw[i].dnldStatus = "downloaded"
         IN  FirmwareLoop(fw, i + 1, flag \/ (is_target_ver /\ is_downloaded))

\* A variant of is_firmware_downloaded that does not look at dnldStatus.
is_firmware_downloaded_AnyStatus(fw) ==
    \E i \in 1..Len(fw) : fw[i].fullVersion = version_str

\* MaintGroup.is_firmware_downloaded over the records it fetched.
is_firmware_downloaded(fw) == FirmwareLoop(fw, 1, FALSE)

\* The deadline of the stage's loop_for, 3600 s, in clock units of the model.
StageDeadlines == 1..MaxDeadline

\* Python's str(bool), to keep "not evaluated yet" apart.
BoolStr(b) == IF b THEN "True" ELSE "False"

\* The stage returns v.
StageReturn(v) ==
    /\ st_result' = v
    /\ pc' = "st_done"

\* MaintGroup(client, group, version_str): device_count = len(get_maint_job).
StageConstruct ==
    /\ pc = "st_entry"
    /\ \E js \in JobLists : device_count' = Len(js)
    /\ pc' = "st_is_upgraded"
    /\ UNCHANGED <<afterStage, now, caller, loopVars, loginVars, obsVars, runVars, jobs,
                   v_state, stVars>>

\* `if group.is_already_upgraded(client): return State.OK`
StageIsAlreadyUpgraded ==
    /\ pc = "st_is_upgraded"
    /\ \E js \in JobLists :
        LET already == is_already_upgraded(js)
        IN  /\ st_already' = BoolStr(already)
            /\ st_online' = Len(js)
            /\ st_all_done' = \A i \in 1..Len(js) : JobDone(js[i])
            /\ IF already
               THEN StageReturn(OK)
               ELSE pc' = "st_is_downloaded" /\ UNCHANGED st_result
    /\ UNCHANGED <<afterStage, now, caller, loopVars, loginVars, obsVars, runVars, mgVars,
                   st_fn, posts, st_downloaded, st_staged, st_code>>

\* `if not group.is_firmware_downloaded(client): return State.FAIL`
StageIsFirmwareDownloaded ==
    /\ pc = "st_is_downloaded"
    /\ \E fw \in FwLists :
        LET downloaded == is_firmware_downloaded(fw)
        IN  /\ st_downloaded' = BoolStr(downloaded)
            /\ st_staged' = \E i \in 1..Len(fw) :
                                /\ fw[i].fullVersion = version_str
                                /\ fw[i].dnldStatus = "downloaded"
            /\ IF ~downloaded
               THEN StageReturn(FAIL)
               ELSE pc' = "st_trigger" /\ UNCHANGED st_result
    /\ UNCHANGED <<afterStage, now, caller, loopVars, loginVars, obsVars, runVars, mgVars,
                   st_fn, posts, st_already, st_all_done, st_code, st_online>>

\* A variant of the trigger that polls whatever the status of the answer.
StageTrigger_IgnoresStatus ==
    /\ pc = "st_trigger"
    /\ posts' = posts + 1
    /\ \E status \in StatusSet : st_code' = status
    /\ \E t \in StageDeadlines : x' = t /\ once' = (t = OnceSentinel)
    /\ start_time' = now
    /\ pc' = "loop_test"
    /\ UNCHANGED <<afterStage, now, caller, client, client0, retry_int, remaining_time,
                   state, result, loginVars, obsVars, runVars, mgVars, st_fn, st_online,
                   st_result, st_already, st_all_done, st_downloaded, st_staged>>

\* The trigger: client.request(..., method="POST"); a status other than 200
\* returns State.FAIL, 200 goes on to loop_for(3600, client,
\* group.verify_complete).
StageTrigger ==
    /\ pc = "st_trigger"
    /\ posts' = posts + 1
    /\ \E status \in StatusSet :
        /\ st_code' = status
        /\ IF status # HttpOK
           THEN StageReturn(FAIL) /\ UNCHANGED <<afterStage, x, once, start_time>>
           ELSE /\ \E t \in StageDeadlines : x' = t /\ once' = (t = OnceSentinel)
                /\ start_time' = now
                /\ pc' = "loop_test"
                /\ UNCHANGED st_result
    /\ UNCHANGED <<afterStage, now, caller, client, client0, retry_int, remaining_time,
                   state, result, loginVars, obsVars, runVars, mgVars, st_fn, st_online,
                   st_already, st_all_done, st_downloaded, st_staged>>

\* A query or the trigger request raises (the connection fails, the session
\* is refused): the exception leaves the stage.
StageRaises ==
    /\ pc \in {"st_entry", "st_is_upgraded", "st_is_downloaded", "st_trigger"}
    /\ posts' = IF pc = "st_trigger" THEN posts + 1 ELSE posts
    /\ StageReturn("raised")
    /\ UNCHANGED <<afterStage, now, caller, loopVars, loginVars, obsVars, runVars, mgVars,
                   st_fn, st_already, st_all_done, st_downloaded, st_staged,
                   st_code, st_online>>

\* What group.verify_complete(client) can return for each device_count, over
\* every list of job records the query can give.
PollOutcomes ==
    [count \in 0..MaxJobs |-> {verify_complete(js, count) : js \in JobLists}]

\* loop_for calls group.verify_complete(client) and it returns: State.OK is
\* returned at once, anything else sleeps retry_int and logs in again.
Poll ==
    /\ pc = "loop_call"
    /\ \E s \in PollOutcomes[device_count], d \in DurSet :
        /\ Called(s, d)
        /\ state' = s
        /\ v_state' = s
        /\ IF s = OK
           THEN /\ now' = now + d
                /\ result' = OK
                /\ pc' = "done"
                /\ UNCHANGED loginVars
           ELSE /\ now' = now + d + retry_int
                /\ EnterLogin(now + d + retry_int, remaining_time)
                /\ UNCHANGED result
    /\ UNCHANGED <<afterStage, caller, x, client, client0, once, start_time, retry_int,
                   remaining_time, runVars, device_count, jobs, stVars>>

\* `state = loop_for(...); return state`
StageLoopReturns ==
    /\ pc = "done"
    /\ StageReturn(result)
    /\ UNCHANGED <<afterStage, now, caller, loopVars, loginVars, obsVars, runVars, mgVars,
                   st_fn, posts, st_already, st_all_done, st_downloaded,
                   st_staged, st_code, st_online>>


\* ------------------------------------------- pre_post: the comparisons
\* dn values as record.get("dn", "") reads them: "" when the record has none.
FaultDns == {"f1", "f2", ""}
DeviceDns == {"d1", "d2", ""}
SeveritySet == {"critical", "minor", "cleared"}
\* Snapshot records hold what the comparisons read of them, the dn; live
\* fault records also carry their severity.
SnapshotRecords(check) ==
    [dn : IF check = "faults" THEN FaultDns ELSE DeviceDns]
CurrentRecords(check) ==
    IF check = "faults" THEN [dn : FaultDns, severity : SeveritySet]
    ELSE [dn : DeviceDns]
MaxSnapshot == 2
MaxCurrent == 2
SeqsUpTo(S, n) == UNION {[1..k -> S] : k \in 0..n}

\* The inner loop of compare_faults from previous fault j on: new_fault
\* becomes False when a previous dn is non-empty and equal to the current one.
RECURSIVE NewFaultLoop(_, _, _, _)
NewFaultLoop(current_fault, previous, j, new_fault) ==
    IF j > Len(previous) THEN new_fault
    ELSE LET previous_dn == previous[j].dn
         IN  NewFaultLoop(current_fault, previous, j + 1,
                 IF previous_dn # "" /\ previous_dn = current_fault.dn
                 THEN FALSE ELSE new_fault)

\* The outer loop of compare_faults from current fault i on: new_faults.
RECURSIVE NewFaults(_, _, _, _)
NewFaults(current, previous, i, new_faults) ==
    IF i > Len(current) THEN new_faults
    ELSE LET new_fault == NewFaultLoop(current[i], previous, 1, TRUE)
         IN  NewFaults(current, previous, i + 1,
                 IF new_fault /\ current[i].severity # "cleared"
                 THEN Append(new_faults, current[i]) ELSE new_faults)

\* The loop over new_faults from k on: has_new_critical_fault.
RECURSIVE HasCritical(_, _, _)
HasCritical(new_faults, k, has_new_critical_fault) ==
    IF k > Len(new_faults) THEN has_new_critical_fault
    ELSE HasCritical(new_faults, k + 1,
             IF new_faults[k].severity = "critical"
             THEN TRUE ELSE has_new_critical_fault)

\* A variant of compare_faults that fails on any new fault.
compare_faults_AnyNew(current, previous) ==
    IF Len(NewFaults(current, previous, 1, <<>>)) > 0 THEN FAIL ELSE OK

\* compare_faults, on the live faults and the snapshot's faults.
compare_faults(current, previous) ==
    LET new_faults == NewFaults(current, previous, 1, <<>>)
    IN  IF Len(new_faults) > 0
        THEN (IF HasCritical(new_faults, 1, FALSE) THEN FAIL ELSE OK)
        ELSE OK

\* `[r.get("dn", "") for r in ...]`
Dns(records) == [i \in 1..Len(records) |-> records[i].dn]

\* `dn not in current_dns`
NotIn(dn, current_dns) == \A i \in 1..Len(current_dns) : current_dns[i] # dn

\* The loop of compare_devices and compare_routes from snapshot record i on:
\* has_missing.
RECURSIVE HasMissing(_, _, _, _)
HasMissing(previous, current_dns, i, has_missing) ==
    IF i > Len(previous) THEN has_missing
    ELSE HasMissing(previous, current_dns, i + 1,
             IF NotIn(previous[i].dn, current_dns) THEN TRUE ELSE has_missing)

\* A variant of compare_devices that looks for live devices the snapshot
\* does not have.
compare_devices_Reversed(current, previous) ==
    IF HasMissing(current, Dns(previous), 1, FALSE) THEN FAIL ELSE OK

\* compare_devices, on the live devices and the snapshot's devices.
compare_devices(current, previous) ==
    IF HasMissing(previous, Dns(current), 1, FALSE) THEN FAIL ELSE OK

\* get_interpod_routes: the isisRoute query is made only when some physical
\* pod has a tepPool; without one the result is [].
get_interpod_routes(has_tep, routes) == IF has_tep THEN routes ELSE <<>>

\* A variant of compare_routes that compares the number of routes.
compare_routes_ByCount(current, previous) ==
    IF Len(current) < Len(previous) THEN FAIL ELSE OK

\* compare_routes, on the result of get_interpod_routes and the snapshot's
\* routes.
compare_routes(current, previous) ==
    IF HasMissing(previous, Dns(current), 1, FALSE) THEN FAIL ELSE OK

\* What the comparisons leave alone.
notCmp == <<now, pc, caller, loopVars, loginVars, obsVars, runVars, mgVars,
            stVars, chkVars, phVars, cliVars, laterVars>>

\* A comparison returned s.
Compared(s) ==
    /\ c_before' = c_state
    /\ c_state' = s
    /\ c_grew' = c_only_added
    /\ c_only_added' = TRUE
    /\ c_fresh' = TRUE
    /\ UNCHANGED <<c_check, c_previous, c_current, c_has_tep, notCmp>>

CompareFaults ==
    /\ c_check = "faults"
    /\ Compared(compare_faults(c_current, c_previous))

CompareDevices ==
    /\ c_check = "devices"
    /\ Compared(compare_devices(c_current, c_previous))

CompareRoutes ==
    /\ c_check = "routes"
    /\ Compared(compare_routes(get_interpod_routes(c_has_tep, c_current),
                               c_previous))

\* The fabric changes between comparisons: a record appears.
Appears ==
    /\ Len(c_current) < MaxCurrent
    /\ \E r \in CurrentRecords(c_check) : c_current' = Append(c_current, r)
    /\ c_fresh' = FALSE
    /\ UNCHANGED <<c_check, c_previous, c_has_tep, c_state, c_before,
                   c_only_added, c_grew, notCmp>>

\* The fabric changes between comparisons: a record disappears.
Disappears ==
    /\ \E i \in 1..Len(c_current) :
        c_current' = SubSeq(c_current, 1, i - 1)
                         \o SubSeq(c_current, i + 1, Len(c_current))
    /\ c_only_added' = FALSE
    /\ c_fresh' = FALSE
    /\ UNCHANGED <<c_check, c_previous, c_has_tep, c_state, c_before, c_grew,
                   notCmp>>

\* -------------------------------------- run_checks and run_post_checks
\* The registries, in the order the @enable / @enable_post decorators fill
\* them when the modules are loaded.
enabled_health_checks ==
    <<"check_firmware_download", "check_running_firmware",
      "check_maintenance_groups", "check_fabric_scale", "check_switch_scale",
      "check_tcam_scale", "check_vpc_health", "check_apic_cluster",
      "check_apic_interfaces", "check_backup", "check_vcenter", "check_dvs">>
enabled_post_checks == <<"compare_faults", "compare_devices", "compare_routes">>
Registry ==
    IF k_registry = "health" THEN enabled_health_checks ELSE enabled_post_checks

\* Registry runs one after the other, as a retry loop makes them.
MaxRuns == 3

\* What the checks leave alone.
notChk == <<now, pc, caller, loopVars, loginVars, obsVars, runVars, mgVars,
            stVars, cmpVars, phVars, cliVars, laterVars>>

\* run_checks(client) / run_post_checks(client, snapshot) is called again.
RunChecksStart ==
    /\ k_result # "none"
    /\ k_runs < MaxRuns
    /\ k_runs' = k_runs + 1
    /\ k_i' = 0
    /\ k_called' = <<>>
    /\ k_states' = <<>>
    /\ k_result' = "none"
    /\ UNCHANGED <<k_registry, notChk>>

\* A variant of CheckReturns that goes on to the next check after a FAIL:
\* only a FAIL of the last check ends the run with FAIL.
CheckReturns_NoShortCircuit ==
    /\ k_result = "none"
    /\ k_i < Len(Registry)
    /\ \E st \in {OK, FAIL} :
        /\ k_called' = Append(k_called, Registry[k_i + 1])
        /\ k_states' = Append(k_states, st)
        /\ k_i' = k_i + 1
        /\ k_result' = IF k_i + 1 = Len(Registry) /\ st = FAIL
                       THEN FAIL ELSE "none"
    /\ UNCHANGED <<k_registry, k_runs, notChk>>

\* One turn of the for loop: the next check is called and returns;
\* `if state == State.FAIL: return state`.
CheckReturns ==
    /\ k_result = "none"
    /\ k_i < Len(Registry)
    /\ \E st \in {OK, FAIL} :
        /\ k_called' = Append(k_called, Registry[k_i + 1])
        /\ k_states' = Append(k_states, st)
        /\ k_i' = k_i + 1
        /\ k_result' = IF st = FAIL THEN st ELSE "none"
    /\ UNCHANGED <<k_registry, k_runs, notChk>>

\* The next check is called and raises: the exception leaves the run.
CheckRaises ==
    /\ k_result = "none"
    /\ k_i < Len(Registry)
    /\ k_called' = Append(k_called, Registry[k_i + 1])
    /\ k_i' = k_i + 1
    /\ k_result' = "raised"
    /\ UNCHANGED <<k_registry, k_states, k_runs, notChk>>

\* The for loop is exhausted: `return State.OK`.
RunChecksReturnsOK ==
    /\ k_result = "none"
    /\ k_i >= Len(Registry)
    /\ k_result' = OK
    /\ UNCHANGED <<k_registry, k_i, k_called, k_states, k_runs, notChk>>

\* ------------------------- pre_post.init, pre_post.run and health.run
\* The lists a class query can return, whatever the fabric holds at the
\* moment of the query, and the data a snapshot can hold.
MaxInventory == 1
InventoryLists == SeqsUpTo([dn : {"n1"}], MaxInventory)
Inventories ==
    [faults : InventoryLists, devices : InventoryLists,
     isis_routes : InventoryLists]

\* `data = {"faults": [], "devices": []}`; isis_routes is set before data is
\* used.
EmptyData == [faults |-> <<>>, devices |-> <<>>, isis_routes |-> <<>>]

\* The snapshot file: absent, empty as open(fn, "w") leaves it, or written
\* with json.dumps(data).
NoFile == [state |-> "absent", data |-> EmptyData]
EmptyFile == [state |-> "empty", data |-> EmptyData]
WrittenFile(d) == [state |-> "written", data |-> d]

\* os.path.isfile(fn)
isfile(f) == f.state # "absent"

\* The parameters of loop_for, those with a default value, and the ones a
\* call with npos positional arguments and the keywords kws leaves unbound:
\* Python raises TypeError when there is one.
LoopForParams == <<"x", "client", "fn", "wait_msg", "fail_msg">>
LoopForDefaults == {"wait_msg", "fail_msg"}
Unbound(npos, kws) ==
    {LoopForParams[i] : i \in (npos + 1)..Len(LoopForParams)}
        \ (kws \cup LoopForDefaults)

\* The timeouts the phases are called with (120, 600, 3600 and -1 in the
\* source), in clock units of the model.
PhaseTimeouts == {OnceSentinel, 1}
MaxPhases == 2

\* What the phases and the login they make leave alone.
notPhases == <<x, client0, once, start_time, retry_int, remaining_time, state,
               result, obsVars, runVars, mgVars, stVars, cmpVars, chkVars,
               cliVars, laterVars>>

\* The phase ends: it returns v or raises v.
PhaseEnds(v) ==
    /\ ph_result' = v
    /\ pc' = "ph_done"

\* pre_post.run(timeout): `client = login_loop_for(timeout, config)`.
PrePostRun ==
    /\ pc = "ph_done"
    /\ ph_calls < MaxPhases
    /\ ph_calls' = ph_calls + 1
    /\ ph_entry' = "pre_post.run"
    /\ ph_result' = "none"
    /\ snapshot_exists' = FALSE
    /\ ld_outcome' = "none"
    /\ caller' = "pre_post"
    /\ \E timeout \in PhaseTimeouts : EnterLogin(now, timeout)
    /\ UNCHANGED <<now, client, snap_file, data, snapshot, captured,
                   notPhases>>

\* pre_post.init(timeout): the snapshot file is removed if it is there, then
\* run(timeout=timeout).
PrePostInit ==
    /\ pc = "ph_done"
    /\ ph_calls < MaxPhases
    /\ ph_calls' = ph_calls + 1
    /\ ph_entry' = "pre_post.init"
    /\ ph_result' = "none"
    /\ snap_file' = IF isfile(snap_file) THEN NoFile ELSE snap_file
    /\ snapshot_exists' = FALSE
    /\ ld_outcome' = "none"
    /\ caller' = "pre_post"
    /\ \E timeout \in PhaseTimeouts : EnterLogin(now, timeout)
    /\ UNCHANGED <<now, client, data, snapshot, captured, notPhases>>

\* health.run(timeout) goes to its loop_for call at once.
HealthRun ==
    /\ pc = "ph_done"
    /\ ph_calls < MaxPhases
    /\ ph_calls' = ph_calls + 1
    /\ ph_entry' = "health.run"
    /\ ph_result' = "none"
    /\ snapshot_exists' = FALSE
    /\ ld_outcome' = "none"
    /\ pc' = "ph_loop_for"
    /\ UNCHANGED <<now, caller, client, loginVars, snap_file, data,
                   snapshot, captured, notPhases>>

\* `if client is None: return State.FAIL`
PhaseNoClient ==
    /\ pc = "ph_logged_in"
    /\ client = None
    /\ PhaseEnds(FAIL)
    /\ UNCHANGED <<now, caller, client, loginVars, ph_entry, ph_calls,
                   snap_file, data, snapshot_exists, snapshot,
                   ld_outcome, captured, notPhases>>

\* `snapshot_exists = os.path.isfile(...)`, then load_snapshot(client) starts
\* with `data = {"faults": [], "devices": []}`.
PhaseSnapshotExists ==
    /\ pc = "ph_logged_in"
    /\ client # None
    /\ snapshot_exists' = isfile(snap_file)
    /\ data' = EmptyData
    /\ pc' = "ld_isfile"
    /\ UNCHANGED <<now, caller, client, loginVars, ph_entry, ph_calls,
                   ph_result, snap_file, snapshot, ld_outcome,
                   captured, notPhases>>

\* load_snapshot, no file: `with open(fn, "w") as f` creates it, empty.
LoadOpen ==
    /\ pc = "ld_isfile"
    /\ ~isfile(snap_file)
    /\ snap_file' = EmptyFile
    /\ pc' = "ld_faults"
    /\ UNCHANGED <<now, caller, client, loginVars, ph_entry, ph_calls,
                   ph_result, data, snapshot_exists, snapshot,
                   ld_outcome, captured, notPhases>>

\* `data["faults"] = get_faults(client)`
LoadGetFaults ==
    /\ pc = "ld_faults"
    /\ \E records \in InventoryLists :
        data' = [data EXCEPT !.faults = records]
    /\ pc' = "ld_devices"
    /\ UNCHANGED <<now, caller, client, loginVars, ph_entry, ph_calls,
                   ph_result, snap_file, snapshot_exists, snapshot,
                   ld_outcome, captured, notPhases>>

\* `data["devices"] = get_devices(client)`
LoadGetDevices ==
    /\ pc = "ld_devices"
    /\ \E records \in InventoryLists :
        data' = [data EXCEPT !.devices = records]
    /\ pc' = "ld_routes"
    /\ UNCHANGED <<now, caller, client, loginVars, ph_entry, ph_calls,
                   ph_result, snap_file, snapshot_exists, snapshot,
                   ld_outcome, captured, notPhases>>

\* `data["isis_routes"] = get_interpod_routes(client)`
LoadGetRoutes ==
    /\ pc = "ld_routes"
    /\ \E records \in InventoryLists :
        data' = [data EXCEPT !.isis_routes = records]
    /\ pc' = "ld_write"
    /\ UNCHANGED <<now, caller, client, loginVars, ph_entry, ph_calls,
                   ph_result, snap_file, snapshot_exists, snapshot,
                   ld_outcome, captured, notPhases>>

\* One of the three queries raises (the connection fails, the request times
\* out, the answer is not 200): the with block closes the file, still empty,
\* and the exception leaves load_snapshot and the phase.
LoadQueryRaises ==
    /\ pc \in {"ld_faults", "ld_devices", "ld_routes"}
    /\ ld_outcome' = "raised"
    /\ PhaseEnds("Exception")
    /\ UNCHANGED <<now, caller, client, loginVars, ph_entry, ph_calls,
                   snap_file, data, snapshot_exists, snapshot,
                   captured, notPhases>>

\* `f.write(json.dumps(data, indent=2)); return data`
LoadWrite ==
    /\ pc = "ld_write"
    /\ snap_file' = WrittenFile(data)
    /\ captured' = data
    /\ snapshot' = data
    /\ ld_outcome' = "returned"
    /\ pc' = "ph_loaded"
    /\ UNCHANGED <<now, caller, client, loginVars, ph_entry, ph_calls,
                   ph_result, data, snapshot_exists, notPhases>>

\* load_snapshot, the file is there: `return json.loads(f.read())`, which
\* raises JSONDecodeError on the empty text of an empty file.
LoadRead ==
    /\ pc = "ld_isfile"
    /\ isfile(snap_file)
    /\ IF snap_file.state = "empty"
       THEN /\ ld_outcome' = "raised"
            /\ PhaseEnds("JSONDecodeError")
            /\ UNCHANGED snapshot
       ELSE /\ snapshot' = snap_file.data
            /\ ld_outcome' = "returned"
            /\ pc' = "ph_loaded"
            /\ UNCHANGED ph_result
    /\ UNCHANGED <<now, caller, client, loginVars, ph_entry, ph_calls,
                   snap_file, data, snapshot_exists, captured,
                   notPhases>>

\* `if snapshot_exists: ... else: return State.OK`
PhaseNoCompare ==
    /\ pc = "ph_loaded"
    /\ ~snapshot_exists
    /\ PhaseEnds(OK)
    /\ UNCHANGED <<now, caller, client, loginVars, ph_entry, ph_calls,
                   snap_file, data, snapshot_exists, snapshot,
                   ld_outcome, captured, notPhases>>

\* `if snapshot_exists:` the loop_for call of pre_post.run comes next.
PhaseCompare ==
    /\ pc = "ph_loaded"
    /\ snapshot_exists
    /\ pc' = "ph_loop_for"
    /\ UNCHANGED <<now, caller, client, loginVars, phVars, notPhases>>

\* `state = loop_for(timeout, run_checks, fail_msg="...")` in health.run and
\* `state = loop_for(timeout, _run_checks, fail_msg="...")` in pre_post.run:
\* two positional arguments and the keyword fail_msg. With a parameter left
\* unbound the call raises TypeError before loop_for's body runs; otherwise
\* loop_for starts.
PhaseLoopFor ==
    /\ pc = "ph_loop_for"
    /\ IF Unbound(2, {"fail_msg"}) # {}
       THEN PhaseEnds("TypeError")
       ELSE pc' = "loop_test" /\ UNCHANGED ph_result
    /\ UNCHANGED <<now, caller, client, loginVars, ph_entry, ph_calls,
                   snap_file, data, snapshot_exists, snapshot,
                   ld_outcome, captured, notPhases>>

\* ------------------------------------------------------------- Client
\* `elapsed_time > (8 * 60)`, in minutes.
RefreshAfter == 8
\* The clock runs to MaxClock minutes.
MaxClock == 12

\* What the Client's methods leave alone.
notClient == <<pc, caller, loopVars, loginVars, obsVars, runVars, mgVars,
               stVars, cmpVars, chkVars, phVars, laterVars>>

\* refresh_token at time t: Client.last_refresh after it.
refresh_token(t) ==
    LET elapsed_time == t - last_refresh
    IN  IF elapsed_time > RefreshAfter THEN t ELSE last_refresh

\* A minute passes.
ClockTick ==
    /\ now < MaxClock
    /\ now' = now + 1
    /\ UNCHANGED <<cliVars, notClient>>

\* Client(config): __init__ and login set last_refresh.
ClientLogin ==
    /\ last_refresh' = now
    /\ sent_kind' = "login"
    /\ UNCHANGED <<now, sent_age, notClient>>

\* client.get(...) (and get_class): refresh_token(), then request().
ClientGet ==
    /\ last_refresh' = refresh_token(now)
    /\ sent_kind' = "get"
    /\ sent_age' = now - last_refresh'
    /\ UNCHANGED <<now, notClient>>

\* client.post(...): refresh_token(), then request().
ClientPost ==
    /\ last_refresh' = refresh_token(now)
    /\ sent_kind' = "post"
    /\ sent_age' = now - last_refresh'
    /\ UNCHANGED <<now, notClient>>

\* client.request(...) called directly, as backup, tech_support,
\* upgrade_apics and upgrade_switches do for their trigger: no refresh_token.
ClientRequest ==
    /\ sent_kind' = "request"
    /\ sent_age' = now - last_refresh
    /\ UNCHANGED <<now, last_refresh, notClient>>

\* -------------------------------------- KeyboardInterrupt at a sleep point
\* The exception classes that matter and their base classes.
BaseClass(e) ==
    IF e \in {"Timeout", "ConnectionError", "AuthException"} THEN "Exception"
    ELSE "BaseException"

\* isinstance(e, cls) for an exception of class e.
IsInstance(e, cls) ==
    \/ e = cls
    \/ BaseClass(e) = cls
    \/ cls = "BaseException"

\* The except clause of a try statement that handles e when it is raised in
\* the try body: the first that matches, "none" when none does.
Handler(e, clauses) ==
    IF \E i \in 1..Len(clauses) : IsInstance(e, clauses[i])
    THEN clauses[CHOOSE i \in 1..Len(clauses) :
                     /\ IsInstance(e, clauses[i])
                     /\ \A j \in 1..(i - 1) : ~IsInstance(e, clauses[j])]
    ELSE "none"

\* A variant of loop_for's except clauses without the KeyboardInterrupt
\* clause and with a last clause that catches everything.
LoopForClauses_CatchAll ==
    <<"Timeout", "ConnectionError", "AuthException", "BaseException">>

\* The except clauses of loop_for's try statement, in their order.
LoopForClauses ==
    <<"KeyboardInterrupt", "Timeout", "ConnectionError", "AuthException",
      "Exception">>

\* What the interrupt leaves alone.
notInt == <<runVars, mgVars, stVars, cmpVars, chkVars, phVars, cliVars,
    gateVars, mainVars>>

\* KeyboardInterrupt is raised at time t, in the try body of loop_for
\* (inTry) or in the body of one of its except clauses. In the try body the
\* first matching clause handles it: `except KeyboardInterrupt: exit(0)`
\* raises SystemExit, a clause for a broader class would go on to log in
\* again. An exception raised in the body of an except clause is handled by
\* none of the clauses and leaves loop_for.
Unwind(inTry, t) ==
    LET h == IF inTry THEN Handler("KeyboardInterrupt", LoopForClauses)
             ELSE "none"
    IN  IF h = "KeyboardInterrupt"
        THEN unwound' = "SystemExit" /\ pc' = "terminated"
                 /\ UNCHANGED loginVars
        ELSE IF h = "none"
        THEN unwound' = "KeyboardInterrupt" /\ pc' = "terminated"
                 /\ UNCHANGED loginVars
        ELSE unwound' = "none" /\ EnterLogin(t, remaining_time)

\* fn returns PENDING or FAIL and the interrupt arrives in
\* time.sleep(retry_int), in the try body.
InterruptWait ==
    /\ pc = "loop_call"
    /\ interrupt = "none"
    /\ \E out \in {PENDING, FAIL}, d \in DurSet :
        /\ Called(out, d)
        /\ state' = out
        /\ now' = now + d
        /\ Unwind(TRUE, now + d)
    /\ interrupt' = "wait"
    /\ UNCHANGED <<caller, x, client, client0, once, start_time, retry_int,
                   remaining_time, result, notInt>>

\* fn raises Timeout or another Exception and the interrupt arrives in the
\* time.sleep(retry_int) of the except clause.
InterruptHandlerWait ==
    /\ pc = "loop_call"
    /\ interrupt = "none"
    /\ \E e \in {"Timeout", "Exception"}, d \in DurSet :
        /\ Called(e, d)
        /\ state' = e
        /\ now' = now + d
        /\ Unwind(FALSE, now + d)
    /\ interrupt' = "handler"
    /\ UNCHANGED <<caller, x, client, client0, once, start_time, retry_int,
                   remaining_time, result, notInt>>

\* Client(config) raises and the interrupt arrives in time.sleep(login_int),
\* in the body of login_loop_for's `except Exception`: it leaves
\* login_loop_for, into the try body of loop_for when the login was made
\* after PENDING or FAIL, into an except clause of loop_for otherwise.
InterruptLoginBackoff ==
    /\ pc = "login_try"
    /\ interrupt = "none"
    /\ caller = "loop_for"
    /\ \E d \in DurSet :
        /\ now' = now + d
        /\ Unwind(state \in {PENDING, FAIL}, now + d)
    /\ interrupt' = "login"
    /\ UNCHANGED <<caller, loopVars, obsVars, notInt>>

\* --------------------------------------------- workflow_gate on its own
\* The calls of workflow_gate a process makes.
MaxGateCalls == 6

\* What workflow_gate leaves alone.
notGate == <<now, pc, caller, loopVars, loginVars, obsVars, runVars, mgVars,
             stVars, cmpVars, chkVars, phVars, cliVars, intVars,
    mainVars>>

\* The process calls workflow_gate(s): the call returns, or exit() ends the
\* process with its status.
WorkflowGate ==
    /\ g_exit = -1
    /\ Len(g_args) < MaxGateCalls
    /\ \E s \in {OK, FAIL, PENDING} :
        LET g == workflow_gate(s)
        IN  /\ g_args' = Append(g_args, s)
            /\ IF g.kind = "exit"
               THEN g_exit' = g.val /\ UNCHANGED g_rets
               ELSE g_rets' = Append(g_rets, g.val) /\ UNCHANGED g_exit
    /\ UNCHANGED notGate

\* ---------------------------------------------------------------- main.main
\* The firmware groups of the configuration.
MaxFirmwareGroups == 2

\* The stage calls of main before its loop and in the body of the loop, in
\* the order of the code, and the function each one calls.
MainBefore ==
    <<"pre_snapshot", "pre_health", "backup", "tech_support", "upgrade_apics",
      "apic_post", "apic_health">>
MainBody == <<"switch_upgrade", "switch_post", "switch_health">>
Callee(label) ==
    CASE label = "pre_snapshot" -> "pre_post.init"
      [] label \in {"pre_health", "apic_health", "switch_health"} -> "health.run"
      [] label = "backup" -> "upgrade.backup"
      [] label = "tech_support" -> "upgrade.tech_support"
      [] label = "upgrade_apics" -> "upgrade.upgrade_apics"
      [] label \in {"apic_post", "switch_post"} -> "pre_post.run"
      [] label = "switch_upgrade" -> "upgrade.upgrade_switches"

\* Where main goes on after the stage at `label` when it does not return.
Index(seq, e) == CHOOSE i \in 1..Len(seq) : seq[i] = e
After(label) ==
    LET seq == IF \E i \in 1..Len(MainBefore) : MainBefore[i] = label
               THEN MainBefore ELSE MainBody
        i == Index(seq, label)
    IN  IF i < Len(seq) THEN seq[i + 1] ELSE "for_group"

\* What a stage call gives main: the State it returns, or an exception.
StageResults == {OK, FAIL, "raised"}

\* The stage calls followed by `return State.FAIL` when they return FAIL:
\* every one but the switch upgrade, whose `if` only logs.
ReturnsOnFail(label) == label # "switch_upgrade"

\* What main leaves alone.
notMain == <<now, pc, caller, loopVars, loginVars, obsVars, runVars, mgVars,
             stVars, cmpVars, chkVars, phVars, cliVars, intVars, gateVars>>

\* main returns v.
MainReturn(v) ==
    /\ m_result' = v
    /\ m_pc' = "returned"

\* `client = login_loop_for(120, config); if client is None: return FAIL`
MainLogin ==
    /\ m_pc = "login"
    /\ \E got \in {None, 1} :
        IF got = None
        THEN MainReturn(FAIL)
        ELSE m_pc' = MainBefore[1] /\ UNCHANGED m_result
    /\ UNCHANGED <<m_group, firmware_groups, m_log, notMain>>

\* One stage call and the `if` around it: an exception leaves main, FAIL
\* makes main return FAIL where the `if` has a return, and otherwise main
\* goes on to the next stage.
MainStage ==
    /\ m_pc \in {MainBefore[i] : i \in 1..Len(MainBefore)}
                \cup {MainBody[i] : i \in 1..Len(MainBody)}
    /\ \E r \in StageResults :
        /\ m_log' = Append(m_log, [stage |-> Callee(m_pc), group |-> m_group,
                                   gave |-> r])
        /\ IF r = "raised"
           THEN m_result' = "raised" /\ m_pc' = "raised"
           ELSE IF r = FAIL /\ ReturnsOnFail(m_pc)
                THEN MainReturn(FAIL)
                ELSE m_pc' = After(m_pc) /\ UNCHANGED m_result
    /\ UNCHANGED <<m_group, firmware_groups, notMain>>

\* `for group in config.get("firmware_groups", [])`, and `return State.OK`
\* after the last group.
MainForGroup ==
    /\ m_pc = "for_group"
    /\ IF m_group < firmware_groups
       THEN /\ m_group' = m_group + 1
            /\ m_pc' = MainBody[1]
            /\ UNCHANGED m_result
       ELSE MainReturn(OK) /\ UNCHANGED m_group
    /\ UNCHANGED <<firmware_groups, m_log, notMain>>

\* ------------------------------------------------------------ specifications
\* The variables of loop_for and login_loop_for while neither runs.
IdleLoop ==
    /\ x = 0
    /\ client0 = None
    /\ once = FALSE
    /\ start_time = 0
    /\ retry_int = 1
    /\ remaining_time = 0
    /\ state = "none"
    /\ result = "none"
    /\ calls = 0
    /\ afterFail = FALSE
    /\ excSeen = FALSE
    /\ lastRetAt = 0
    /\ clean = -1

IdleLogin ==
    /\ l_x = 0
    /\ l_start_time = 0
    /\ l_once = FALSE
    /\ l_fails = 0

IdleRun ==
    /\ groups = <<>>
    /\ stage = 0
    /\ started = <<>>
    /\ outcomes = <<>>
    /\ r_result = "none"
    /\ exit_code = -1
    /\ reported = "none"

IdleMg ==
    /\ device_count = 0
    /\ jobs = <<>>
    /\ v_state = "none"

IdleStage ==
    /\ st_fn = "none"
    /\ posts = 0
    /\ st_result = "none"
    /\ st_already = "none"
    /\ st_all_done = FALSE
    /\ st_downloaded = "none"
    /\ st_staged = FALSE
    /\ st_code = 0
    /\ st_online = -1

\* The variables of the parts that SpecLoop, SpecLogin, SpecRun and
\* SpecVerify do not run.
IdleCmp ==
    /\ c_check = "none"
    /\ c_previous = <<>>
    /\ c_current = <<>>
    /\ c_has_tep = FALSE
    /\ c_state = "none"
    /\ c_before = "none"
    /\ c_only_added = FALSE
    /\ c_grew = FALSE
    /\ c_fresh = FALSE

\* The variables of the parts that come after the upgrade stage.
IdleChk ==
    /\ k_registry = "none"
    /\ k_i = 0
    /\ k_called = <<>>
    /\ k_states = <<>>
    /\ k_result = "none"
    /\ k_runs = 0

IdlePhases ==
    /\ ph_entry = "none"
    /\ ph_calls = 0
    /\ ph_result = "none"
    /\ snap_file = [state |-> "absent", data |-> <<>>]
    /\ data = <<>>
    /\ snapshot_exists = FALSE
    /\ snapshot = <<>>
    /\ ld_outcome = "none"
    /\ captured = <<>>

IdleClient ==
    /\ last_refresh = 0
    /\ sent_kind = "none"
    /\ sent_age = 0

IdleInt ==
    /\ interrupt = "none"
    /\ unwound = "none"

IdleGate ==
    /\ g_args = <<>>
    /\ g_rets = <<>>
    /\ g_exit = -1

IdleMain ==
    /\ m_pc = "none"
    /\ m_group = 0
    /\ firmware_groups = 0
    /\ m_log = <<>>
    /\ m_result = "none"

IdleLater == IdleInt /\ IdleGate /\ IdleMain

IdleAfterStage == IdleCmp /\ IdleChk /\ IdlePhases /\ IdleClient /\ IdleLater

IdleRest == IdleStage /\ IdleAfterStage

\* loop_for(x, client, fn) is called at time 0 with a Client or with None.
InitLoop ==
    /\ now = 0
    /\ pc = "loop_test"
    /\ caller = "loop_for"
    /\ x \in DeadlineSet
    /\ client \in {None, 1}
    /\ client0 = client
    /\ once = (x = OnceSentinel)
    /\ start_time = 0
    /\ retry_int \in IntervalSet
    /\ remaining_time = 0
    /\ state = "none"
    /\ result = "none"
    /\ IdleLogin
    /\ login_int \in IntervalSet
    /\ calls = 0
    /\ afterFail = FALSE
    /\ excSeen = FALSE
    /\ lastRetAt = 0
    /\ clean = IF client # None THEN 0 ELSE -1
    /\ IdleRun
    /\ IdleMg
    /\ IdleRest

NextLoop ==
    \/ LoopEnter \/ LoopExit
    \/ FnOK \/ FnPending \/ FnFail
    \/ FnTimeout \/ FnConnectionError \/ FnAuthException \/ FnException
    \/ LoginEnter \/ LoginExit \/ LoginOK \/ LoginFail

SpecLoop == InitLoop /\ [][NextLoop]_vars

\* login_loop_for(x, config) is called on its own at time 0.
InitLogin ==
    /\ now = 0
    /\ pc = "login_test"
    /\ caller = "top"
    /\ client = None
    /\ IdleLoop
    /\ l_x \in DeadlineSet
    /\ l_start_time = 0
    /\ l_once = (l_x = OnceSentinel)
    /\ login_int \in IntervalSet
    /\ l_fails = 0
    /\ IdleRun
    /\ IdleMg
    /\ IdleRest

NextLogin == LoginEnter \/ LoginExit \/ LoginOK \/ LoginFail

SpecLogin == InitLogin /\ [][NextLogin]_vars

\* upgrade.run(client, timeout) is called at time 0, with a Client or with
\* None, a timeout x and a list of firmware groups.
InitRun ==
    /\ now = 0
    /\ pc = "run_entry"
    /\ caller = "run"
    /\ client \in {None, 1}
    /\ x \in DeadlineSet
    /\ client0 = client
    /\ once = FALSE
    /\ start_time = 0
    /\ retry_int = 1
    /\ remaining_time = 0
    /\ state = "none"
    /\ result = "none"
    /\ calls = 0
    /\ afterFail = FALSE
    /\ excSeen = FALSE
    /\ lastRetAt = 0
    /\ clean = -1
    /\ IdleLogin
    /\ login_int \in IntervalSet
    /\ groups \in GroupLists
    /\ stage = 0
    /\ started = <<>>
    /\ outcomes = <<>>
    /\ r_result = "none"
    /\ exit_code = -1
    /\ reported = "none"
    /\ IdleMg
    /\ IdleRest

NextRun ==
    \/ RunLogin \/ RunNoClient \/ RunTry
    \/ RunStageStart \/ RunStageRaises \/ RunStageReturns
    \/ LoginEnter \/ LoginExit \/ LoginOK \/ LoginFail

SpecRun == InitRun /\ [][NextRun]_vars

\* MaintGroup(client, group, version_str) has just been built: device_count
\* is the number of records get_maint_job returned to __init__.
InitVerify ==
    /\ now = 0
    /\ pc = "mg_ready"
    /\ caller = "top"
    /\ client = 1
    /\ IdleLoop
    /\ IdleLogin
    /\ login_int = 1
    /\ IdleRun
    /\ jobs \in JobLists
    /\ device_count = Len(jobs)
    /\ v_state = "none"
    /\ IdleRest

NextVerify == VerifyComplete

SpecVerify == InitVerify /\ [][NextVerify]_vars

\* upgrade_apics(client) or upgrade_switches(fw_group, client) is called with
\* a Client at time 0.
InitStage ==
    /\ now = 0
    /\ pc = "st_entry"
    /\ caller = "loop_for"
    /\ client = 1
    /\ IdleLoop
    /\ retry_int \in IntervalSet
    /\ IdleLogin
    /\ login_int \in IntervalSet
    /\ IdleRun
    /\ IdleMg
    /\ st_fn \in {"upgrade_apics", "upgrade_switches"}
    /\ posts = 0
    /\ st_result = "none"
    /\ st_already = "none"
    /\ st_all_done = FALSE
    /\ st_downloaded = "none"
    /\ st_staged = FALSE
    /\ st_code = 0
    /\ st_online = -1
    /\ IdleAfterStage

NextStage ==
    \/ StageConstruct \/ StageIsAlreadyUpgraded \/ StageIsFirmwareDownloaded
    \/ StageTrigger \/ StageRaises
    \/ LoopEnter \/ LoopExit \/ Poll
    \/ FnTimeout \/ FnConnectionError \/ FnAuthException \/ FnException
    \/ LoginEnter \/ LoginExit \/ LoginOK \/ LoginFail
    \/ StageLoopReturns

SpecStage == InitStage /\ [][NextStage]_vars

\* A snapshot and a live inventory of one kind, before the first comparison.
InitCompare ==
    /\ now = 0
    /\ pc = "compare"
    /\ caller = "none"
    /\ client = 1
    /\ IdleLoop
    /\ IdleLogin
    /\ login_int = 1
    /\ IdleRun
    /\ IdleMg
    /\ IdleStage
    /\ c_check \in {"faults", "devices", "routes"}
    /\ c_previous \in SeqsUpTo(SnapshotRecords(c_check), MaxSnapshot)
    /\ c_current \in SeqsUpTo(CurrentRecords(c_check), MaxCurrent)
    /\ c_has_tep \in (IF c_check = "routes" THEN BOOLEAN ELSE {FALSE})
    /\ c_state = "none"
    /\ c_before = "none"
    /\ c_only_added = FALSE
    /\ c_grew = FALSE
    /\ c_fresh = FALSE
    /\ IdleChk
    /\ IdlePhases
    /\ IdleClient
    /\ IdleLater

NextCompare ==
    \/ CompareFaults \/ CompareDevices \/ CompareRoutes
    \/ Appears \/ Disappears

SpecCompare == InitCompare /\ [][NextCompare]_vars

\* The first run of a registry starts.
InitChecks ==
    /\ now = 0
    /\ pc = "run_checks"
    /\ caller = "none"
    /\ client = 1
    /\ IdleLoop
    /\ IdleLogin
    /\ login_int = 1
    /\ IdleRun
    /\ IdleMg
    /\ IdleStage
    /\ IdleCmp
    /\ k_registry \in {"health", "post"}
    /\ k_i = 0
    /\ k_called = <<>>
    /\ k_states = <<>>
    /\ k_result = "none"
    /\ k_runs = 1
    /\ IdlePhases
    /\ IdleClient
    /\ IdleLater

NextChecks ==
    RunChecksStart \/ CheckReturns \/ CheckRaises \/ RunChecksReturnsOK

SpecChecks == InitChecks /\ [][NextChecks]_vars

\* Before the first phase: no snapshot file, or one written by an earlier
\* run of the workflow.
InitPhases ==
    /\ now = 0
    /\ pc = "ph_done"
    /\ caller = "none"
    /\ client = None
    /\ IdleLoop
    /\ IdleLogin
    /\ login_int \in IntervalSet
    /\ IdleRun
    /\ IdleMg
    /\ IdleStage
    /\ IdleCmp
    /\ IdleChk
    /\ ph_entry = "none"
    /\ ph_calls = 0
    /\ ph_result = "none"
    /\ \E d \in Inventories :
        /\ snap_file \in {NoFile, WrittenFile(d)}
        /\ captured = IF isfile(snap_file) THEN d ELSE EmptyData
    /\ data = EmptyData
    /\ snapshot_exists = FALSE
    /\ snapshot = EmptyData
    /\ ld_outcome = "none"
    /\ IdleClient
    /\ IdleLater

NextPhases ==
    \/ PrePostRun \/ PrePostInit \/ HealthRun
    \/ LoginEnter \/ LoginExit \/ LoginOK \/ LoginFail
    \/ PhaseNoClient \/ PhaseSnapshotExists
    \/ LoadOpen \/ LoadGetFaults \/ LoadGetDevices \/ LoadGetRoutes
    \/ LoadQueryRaises \/ LoadWrite \/ LoadRead
    \/ PhaseNoCompare \/ PhaseCompare \/ PhaseLoopFor

SpecPhases == InitPhases /\ [][NextPhases]_vars

\* A Client has just been built.
InitClient ==
    /\ now = 0
    /\ pc = "client"
    /\ caller = "none"
    /\ client = 1
    /\ IdleLoop
    /\ IdleLogin
    /\ login_int = 1
    /\ IdleRun
    /\ IdleMg
    /\ IdleStage
    /\ IdleCmp
    /\ IdleChk
    /\ IdlePhases
    /\ last_refresh = 0
    /\ sent_kind = "login"
    /\ sent_age = 0
    /\ IdleLater

NextClient ==
    ClockTick \/ ClientLogin \/ ClientGet \/ ClientPost \/ ClientRequest

SpecClient == InitClient /\ [][NextClient]_vars

\* loop_for as in SpecLoop, with an operator who may interrupt it.
InitInterrupt == InitLoop

NextInterrupt ==
    \/ NextLoop
    \/ InterruptWait \/ InterruptHandlerWait \/ InterruptLoginBackoff

SpecInterrupt == InitInterrupt /\ [][NextInterrupt]_vars

\* A running process that has not called workflow_gate yet.
InitGate ==
    /\ now = 0
    /\ pc = "gate"
    /\ caller = "none"
    /\ client = 1
    /\ IdleLoop
    /\ IdleLogin
    /\ login_int = 1
    /\ IdleRun
    /\ IdleMg
    /\ IdleStage
    /\ IdleCmp
    /\ IdleChk
    /\ IdlePhases
    /\ IdleClient
    /\ IdleInt
    /\ IdleMain
    /\ g_args = <<>>
    /\ g_rets = <<>>
    /\ g_exit = -1

NextGate == WorkflowGate

SpecGate == InitGate /\ [][NextGate]_vars

\* main() is called with a configuration of some number of firmware groups.
InitMain ==
    /\ now = 0
    /\ pc = "main"
    /\ caller = "none"
    /\ client = None
    /\ IdleLoop
    /\ IdleLogin
    /\ login_int = 1
    /\ IdleRun
    /\ IdleMg
    /\ IdleStage
    /\ IdleCmp
    /\ IdleChk
    /\ IdlePhases
    /\ IdleClient
    /\ IdleInt
    /\ IdleGate
    /\ m_pc = "login"
    /\ m_group = 0
    /\ firmware_groups \in 0..MaxFirmwareGroups
    /\ m_log = <<>>
    /\ m_result = "none"

NextMain == MainLogin \/ MainStage \/ MainForGroup

SpecMain == InitMain /\ [][NextMain]_vars

\* loop_for under the passing of time. A step of the loop is taken whenever
\* one can be (the interpreter keeps running), and time.time() diverges: no
\* endless sequence of calls and logins fits into a bounded span of time, so
\* whenever steps that take time keep being possible one of them is taken.
TimePasses == NextLoop /\ now' > now

\* loop_for is called with a positive deadline.
InitLoopFair == InitLoop /\ x > 0

SpecLoopFair ==
    /\ InitLoopFair
    /\ [][NextLoop]_vars
    /\ WF_vars(NextLoop)
    /\ SF_vars(TimePasses)

\* ---------------------------------------------------------------- loop_for
\* The deadline of the running loop_for has expired.
Expired == now - start_time >= x

\* C1 (as claimed): once fn has returned State.FAIL it is never called
\* again, so a call that returns FAIL is the last call of loop_for.
C1_NoCallAfterFail == ~afterFail

\* C1 (amended): a FAIL returned by fn does not end loop_for.  It is handled
\* as PENDING is: loop_for sleeps retry_int and logs in again, and returns
\* FAIL only by leaving the loop (deadline expired or no Client).  So when
\* the last call returned FAIL, loop_for returns FAIL no earlier than
\* retry_int after that call ended, with the loop condition false.
C1_FailIsRetried ==
    (pc = "done" /\ state = FAIL) =>
        /\ result = FAIL
        /\ now >= lastRetAt + retry_int
        /\ ~LoopCond

\* C1 witness: fn returned FAIL, was called again, and loop_for returned OK.
C1_Witness == pc = "done" /\ result = OK /\ afterFail

\* C2 (as claimed): fn returns PENDING n times and then OK, in no time, and
\* every login succeeds at once; loop_for returns OK whenever
\* x >= n * retry_int and FAIL whenever x < n * retry_int.  A run that ends
\* after k PENDING results is the run of every such fn with n >= k when it
\* ends in FAIL, and of the fn with n = k when it ends in OK.
C2_Original ==
    (pc = "done" /\ clean >= 0) =>
        /\ result = OK => x >= clean * retry_int
        /\ result = FAIL => x < clean * retry_int

\* C2 (amended): for a deadline x >= 0 and the same fn, loop_for returns OK
\* whenever x > n * retry_int and FAIL whenever x <= n * retry_int: call
\* n + 1 is made only while the elapsed time n * retry_int is strictly
\* below x.
C2_StrictDeadline ==
    (pc = "done" /\ clean >= 0 /\ x >= 0) =>
        /\ result = OK => x > clean * retry_int
        /\ result = FAIL => x <= clean * retry_int

\* C2 witness: two PENDING results and then OK, within a deadline x >= 0.
C2_Witness == pc = "done" /\ clean >= 2 /\ result = OK /\ x >= 0

\* C3: an exception raised by fn (Timeout, ConnectionError, AuthException or
\* any other Exception) neither leaves loop_for nor makes it return FAIL by
\* itself: loop_for given a Client returns a State, and returns FAIL after
\* an exception only once the deadline has expired.
C3_ErrorsAreRetried ==
    (pc = "done" /\ excSeen) =>
        /\ result \in {OK, FAIL}
        /\ (result = FAIL /\ client0 # None) => Expired

\* C3 witness: fn raised an exception, was attempted again and loop_for
\* returned OK within a positive deadline.
C3_Witness == pc = "done" /\ excSeen /\ result = OK /\ x > 0 /\ calls >= 2

\* C4 (as claimed): with a deadline x <= 0 loop_for given a Client never
\* returns because of a timeout: it returns only when the last call of fn
\* returned OK or an explicit FAIL.
C4_Original ==
    (pc = "done" /\ x <= 0 /\ client0 # None) => state \in {OK, FAIL}

\* C4 (amended): the deadline -1 means one attempt, not an unbounded wait:
\* loop_for given a Client calls fn exactly once and returns OK if that call
\* returned OK and FAIL otherwise; with any other deadline x <= 0 it calls
\* fn not at all and returns FAIL.
C4_SentinelMeansOnce ==
    (pc = "done" /\ client0 # None) =>
        /\ x = OnceSentinel => (calls = 1 /\ (result = OK <=> state = OK))
        /\ (x <= 0 /\ x # OnceSentinel) => (calls = 0 /\ result = FAIL)

\* C4 witness: with deadline -1 the one call returned PENDING and loop_for
\* returned FAIL.
C4_Witness ==
    pc = "done" /\ x = OnceSentinel /\ state = PENDING /\ result = FAIL

\* C5 (as claimed): for a deadline x > 0 neither a call of fn nor a login
\* attempt made for the loop starts once the time since loop_for began has
\* reached x.
C5_AbsoluteBudget ==
    (caller = "loop_for" /\ x > 0 /\ pc \in {"loop_call", "login_try"}) =>
        now - start_time < x

\* ------------------------------------------------------------ login_loop_for
\* Login attempts made so far by the login_loop_for call of SpecLogin.
LoginAttempts == l_fails + (IF client # None THEN 1 ELSE 0)

\* C6: login_loop_for returns a Client or None; it returns None only when
\* the loop condition has become false (every attempt made failed and the
\* deadline is used up), and each failed attempt was followed by a sleep of
\* login_int, so at least l_fails * login_int has passed since it started.
C6_LoginContract ==
    /\ now - l_start_time >= l_fails * login_int
    /\ pc = "done" => (client \in {None, 1, 2} /\ (client = None => ~LoginCond))

\* C6 witness: a login succeeded after a failed attempt.
C6_Witness == pc = "done" /\ client # None /\ l_fails >= 1

\* C7: called with the deadline -1, login_loop_for makes exactly one login
\* attempt and returns its Client or None; it never makes a second attempt.
C7_OneAttempt ==
    l_x = OnceSentinel =>
        /\ LoginAttempts <= 1
        /\ pc = "done" => LoginAttempts = 1

\* C7 witness: with deadline -1 the one attempt failed and None is returned.
C7_Witness ==
    pc = "done" /\ l_x = OnceSentinel /\ client = None /\ l_fails = 1

\* ---------------------------------------------------------------- upgrade.run
\* C8: run starts its stages in declaration order (positions 1, 2, 3, then
\* the groups in list order), each at most once, and starts a stage only
\* after every earlier stage has returned OK: no stage is started after a
\* stage that returned FAIL.
C8_StagesInOrder ==
    /\ Len(started) <= NumStages
    /\ \A i \in 1..Len(started) :
        /\ started[i] = i
        /\ \A j \in 1..(i - 1) : j <= Len(outcomes) /\ outcomes[j] = OK

\* C8 witness: the second of at least four stages returned FAIL and run has
\* ended with two stages started.
C8_Witness ==
    /\ pc = "done"
    /\ Len(groups) >= 1
    /\ Len(started) = 2
    /\ Len(outcomes) = 2
    /\ outcomes[2] = FAIL

\* C9 (as claimed): when a stage returns FAIL, run ends by returning
\* State.FAIL after reporting the GatingEvent that carries that stage's name.
C9_GatingEventReported ==
    (pc = "done" /\ Len(outcomes) >= 1 /\ outcomes[Len(outcomes)] = FAIL) =>
        (r_result = FAIL /\ reported = StageName(Len(outcomes)))

\* -------------------------------------------------------------- MaintGroup
\* C10: verify_complete returns OK exactly when at least device_count
\* records were returned and every one of them has upgradeStatus
\* "completeok" and desiredVersion equal to the target version; in every
\* other case it returns PENDING.
C10_VerifyComplete ==
    v_state # "none" =>
        /\ v_state \in {OK, PENDING}
        /\ v_state = OK <=>
            (Len(jobs) >= device_count /\ \A i \in 1..Len(jobs) : JobDone(jobs[i]))

\* C10 witness: more records than expected, all complete at the target
\* version, and verify_complete returned OK.
C10_Witness == v_state = OK /\ device_count >= 1 /\ Len(jobs) > device_count

\* ------------------------------------------------------- the upgrade stage
\* C11: during an upgrade stage no poll of verify_complete yields FAIL, and a
\* stage whose trigger was accepted returns FAIL only when the deadline of
\* its loop_for has expired.
C11_FailOnlyByDeadline ==
    /\ v_state # FAIL
    /\ (pc = "st_done" /\ st_code = HttpOK /\ st_result = FAIL) =>
        Expired

\* A triggered stage polled, never converged, and failed at the deadline.
C11_Witness ==
    /\ pc = "st_done" /\ st_code = HttpOK /\ st_result = FAIL
    /\ calls >= 2 /\ v_state = PENDING /\ ~excSeen

\* C12: when every job record is_already_upgraded reads is completeok at the
\* target version, the stage returns OK, sends no trigger request, reads no
\* firmware record and never polls.
C12_AlreadyUpgraded ==
    st_all_done =>
        /\ pc = "st_done" /\ st_result = OK
        /\ posts = 0 /\ calls = 0 /\ st_downloaded = "none"

\* A stage ended that way.
C12_Witness ==
    /\ pc = "st_done" /\ st_all_done /\ st_already = "True"
    /\ st_result = OK /\ posts = 0

\* C13: when the group is not already upgraded and no firmware record is the
\* target version with dnldStatus "downloaded", the stage returns FAIL with
\* no trigger request sent and no poll made.
C13_FirmwareMissing ==
    (st_already = "False" /\ st_downloaded # "none" /\ ~st_staged) =>
        /\ pc = "st_done" /\ st_result = FAIL
        /\ posts = 0 /\ calls = 0 /\ st_code = 0

\* A stage ended that way.
C13_Witness ==
    /\ pc = "st_done" /\ st_already = "False" /\ st_downloaded = "False"
    /\ ~st_staged /\ st_result = FAIL /\ posts = 0

\* ----------------------------------------------------- the comparisons
\* Current fault f is new, uncleared and critical: no snapshot fault has its
\* dn (a record without a dn has none to match), and its severity is
\* "critical", which is not "cleared".
NewCritical(f) ==
    /\ \A j \in 1..Len(c_previous) :
           c_previous[j].dn = "" \/ c_previous[j].dn # f.dn
    /\ f.severity # "cleared"
    /\ f.severity = "critical"

\* C14: compare_faults returns FAIL exactly when some live fault is new,
\* uncleared and critical, and OK for every other pair of fault lists.
C14_CompareFaults ==
    (c_check = "faults" /\ c_fresh) =>
        /\ c_state \in {OK, FAIL}
        /\ c_state = FAIL <=> \E i \in 1..Len(c_current) : NewCritical(c_current[i])

\* compare_faults returned OK with a new fault that is not critical next to a
\* critical one that the snapshot already had.
C14_Witness ==
    /\ c_check = "faults" /\ c_fresh /\ c_state = OK
    /\ \E i, k \in 1..Len(c_current), j \in 1..Len(c_previous) :
        /\ c_current[i].severity = "critical"
        /\ c_current[i].dn = c_previous[j].dn /\ c_previous[j].dn # ""
        /\ c_current[k].severity = "minor"
        /\ \A m \in 1..Len(c_previous) : c_previous[m].dn # c_current[k].dn

\* Some snapshot record has a dn that no record of the list `live` has.
SomeMissing(live) ==
    \E i \in 1..Len(c_previous) :
        \A k \in 1..Len(live) : live[k].dn # c_previous[i].dn

\* C15: compare_devices returns FAIL exactly when some snapshot device is
\* missing from the live inventory; when devices have only appeared since
\* the comparison before, an OK does not become FAIL.
C15_CompareDevices ==
    c_check = "devices" =>
        /\ c_fresh => (c_state = FAIL <=> SomeMissing(c_current))
        /\ c_fresh => c_state \in {OK, FAIL}
        /\ (c_grew /\ c_before = OK) => c_state = OK

\* compare_devices returned OK again after a device the snapshot does not
\* have appeared.
C15_Witness ==
    /\ c_check = "devices" /\ c_fresh /\ c_grew
    /\ c_before = OK /\ c_state = OK
    /\ Len(c_previous) >= 1
    /\ \E k \in 1..Len(c_current) :
        \A i \in 1..Len(c_previous) : c_previous[i].dn # c_current[k].dn

\* C16: compare_routes returns FAIL exactly when some snapshot route is
\* missing from what get_interpod_routes returns, and OK otherwise; when
\* routes have only appeared since the comparison before, an OK does not
\* become FAIL.
C16_CompareRoutes ==
    c_check = "routes" =>
        /\ c_fresh =>
            (c_state = FAIL <=>
                SomeMissing(get_interpod_routes(c_has_tep, c_current)))
        /\ c_fresh => c_state \in {OK, FAIL}
        /\ (c_grew /\ c_before = OK) => c_state = OK

\* compare_routes returned FAIL with one snapshot route present and one
\* missing.
C16_Witness ==
    /\ c_check = "routes" /\ c_fresh /\ c_state = FAIL /\ c_has_tep
    /\ Len(c_previous) = 2 /\ Len(c_current) >= 1
    /\ \E i \in 1..Len(c_previous) : c_previous[i].dn = c_current[1].dn

\* ------------------------------------------------------- the registries
\* C18: a registry run calls the checks in registration order; a check that
\* returns FAIL is the last one called and the run returns FAIL; a run
\* returns OK only when every check was called and none returned FAIL.
C18_RegistryRun ==
    /\ k_called = SubSeq(Registry, 1, Len(k_called))
    /\ \A j \in 1..Len(k_states) :
        k_states[j] = FAIL => (j = Len(k_called) /\ k_result = FAIL)
    /\ k_result = FAIL =>
        (k_states # <<>> /\ k_states[Len(k_states)] = FAIL)
    /\ k_result = OK =>
        (k_called = Registry /\ \A j \in 1..Len(k_states) : k_states[j] = OK)
    /\ (k_result = "none" /\ k_i = Len(Registry)) =>
        \A j \in 1..Len(k_states) : k_states[j] = OK

\* A health run ended with FAIL at a check in the middle of the registry.
C18_Witness ==
    /\ k_registry = "health" /\ k_result = FAIL
    /\ Len(k_called) > 3 /\ Len(k_called) < Len(enabled_health_checks)

\* ------------------------------------------------------------ the phases
\* C17: a load_snapshot call that finds the snapshot file there returns the
\* data captured when the file was created.
C17_SnapshotStable ==
    (snapshot_exists /\ ld_outcome # "none") =>
        (ld_outcome = "returned" /\ snapshot = captured)

\* C19: health.run, and pre_post.run once it has loaded an existing snapshot,
\* end by returning what the retry loop over the registry returns, OK or
\* FAIL.
C19_RegistryThroughLoop ==
    (/\ pc = "ph_done"
     /\ \/ ph_entry = "health.run"
        \/ ph_entry = "pre_post.run" /\ snapshot_exists
                                     /\ ld_outcome = "returned") =>
        ph_result \in {OK, FAIL}

\* ------------------------------------------------------------ the Client
\* C20: no remote call other than login and refresh is sent with a session
\* older than the renewal threshold.
C20_NoStaleCall == sent_age <= RefreshAfter

\* --------------------------------------------------------- the interrupt
\* C21: once an interrupt has been delivered at a sleep point, control is
\* nowhere in loop_for or login_loop_for any more: the process has been
\* left by SystemExit or by the KeyboardInterrupt itself, so no call of the
\* operation and no login attempt follows.
C21_InterruptTerminates ==
    interrupt # "none" =>
        (pc = "terminated" /\ unwound \in {"SystemExit", "KeyboardInterrupt"})

\* An interrupt in the login back-off after a PENDING ended the process.
C21_Witness ==
    /\ interrupt = "login" /\ state = PENDING /\ pc = "terminated"
    /\ unwound = "SystemExit" /\ calls >= 1

\* ---------------------------------------------------------- workflow_gate
\* C24: a call workflow_gate(FAIL) is the last the process makes: it does
\* not return and the process exits with status 1; every call with OK or
\* PENDING returns its argument and the process runs on.
C24_WorkflowGate ==
    /\ \A i \in 1..Len(g_args) :
        IF g_args[i] = FAIL
        THEN i = Len(g_args) /\ Len(g_rets) = i - 1 /\ g_exit = 1
        ELSE i <= Len(g_rets) /\ g_rets[i] = g_args[i]
    /\ (\A i \in 1..Len(g_args) : g_args[i] # FAIL) => g_exit = -1

\* The process exited at workflow_gate(FAIL) after calls with OK and PENDING
\* had returned.
C24_Witness ==
    /\ g_exit = 1 /\ Len(g_rets) >= 2
    /\ \E i, j \in 1..Len(g_rets) : g_rets[i] = OK /\ g_rets[j] = PENDING

\* ------------------------------------------------ the deadline, exactly
\* C23 (as claimed): with x > 0 and a Client, when the loop condition is
\* tested with the elapsed time equal to x, the operation is called once
\* more.
C23_Original ==
    [][(pc = "loop_test" /\ client # None /\ x > 0 /\ now - start_time = x)
           => pc' = "loop_call"]_vars

\* C23 (amended): with x > 0, when the loop condition is tested with the
\* elapsed time equal to x, loop_for returns FAIL without another call of
\* the operation.
C23_NoCallAtDeadline ==
    [][(pc = "loop_test" /\ x > 0 /\ now - start_time = x)
           => (pc' = "done" /\ result' = FAIL /\ calls' = calls)]_vars

\* loop_for returned FAIL from a test made at the elapsed time x exactly,
\* after a call.
C23_Witness ==
    /\ pc = "done" /\ result = FAIL /\ x > 0 /\ client # None
    /\ now - start_time = x /\ calls >= 1 /\ calls < MaxCalls

\* ------------------------------------------------- what loop_for returns
\* C25: loop_for returns OK or FAIL, never PENDING, and OK exactly when the
\* last call of the operation returned OK; every stage function, which
\* returns either a state of its own or what its loop_for returned, then
\* returns OK or FAIL.
C25_OnlyOkOrFail ==
    pc = "done" =>
        /\ result \in {OK, FAIL}
        /\ result = OK <=> state = OK
        /\ \A status \in StatusSet, already, downloaded \in BOOLEAN :
            /\ backup(status, result) \in {OK, FAIL}
            /\ tech_support(status, result) \in {OK, FAIL}
            /\ upgrade_apics(already, downloaded, status, result) \in {OK, FAIL}
            /\ upgrade_switches(already, downloaded, status, result)
                   \in {OK, FAIL}

\* The last call returned PENDING and loop_for returned FAIL.
C25_Witness ==
    pc = "done" /\ state = PENDING /\ result = FAIL /\ calls >= 2

\* ------------------------------------------------ a Session after an error
\* C26: when the operation raises ConnectionError or AuthException,
\* login_loop_for is entered before anything else; the login hands loop_for
\* either None or a Client other than the one it held, which is the one that
\* failed; and with None the loop ends with FAIL and no further call.
C26_NewSessionAfterError ==
    [][/\ (pc = "loop_call" /\ state' \in {"ConnectionError", "AuthException"})
           => (pc' = "login_test" /\ client' = client
                  /\ l_x' = remaining_time)
       /\ (pc \in {"login_test", "login_try"} /\ pc' = "loop_test")
           => (client' = None \/ client' # client)
       /\ (pc = "loop_test" /\ client = None)
           => (pc' = "done" /\ result' = FAIL /\ calls' = calls)
       /\ pc' = "loop_call" => client' # None]_vars

\* The second call is about to be made, after the first raised one of the
\* two errors, with a Client that is not the one the first call was given.
C26_Witness ==
    /\ pc = "loop_call" /\ calls = 1
    /\ state \in {"ConnectionError", "AuthException"}
    /\ client # None /\ client # client0

\* ------------------------------------------------------ the trigger POST
\* C28: one stage call sends the trigger POST at most once, and only after
\* is_already_upgraded returned False and is_firmware_downloaded returned
\* True; polling never sends it again, and a trigger answered with a status
\* other than 200 ends the stage with FAIL and no poll.
C28_TriggerOnce ==
    /\ posts <= 1
    /\ posts = 1 => (st_already = "False" /\ st_downloaded = "True")
    /\ calls > 0 => (posts = 1 /\ st_code = HttpOK)
    /\ (st_code # 0 /\ st_code # HttpOK) =>
        (pc = "st_done" /\ st_result = FAIL /\ calls = 0)

\* A triggered stage that polled more than once and ended, with one POST.
C28_Witness ==
    /\ pc = "st_done" /\ posts = 1 /\ st_code = HttpOK
    /\ calls >= 2 /\ st_result \in {OK, FAIL}

\* ------------------------------------------------------- the empty group
\* C29 as stated: a group whose query at construction gave no record
\* (device_count 0) is reported as already upgraded, and the stage returns
\* OK with no trigger request.
C29_Original ==
    (device_count = 0 /\ st_already # "none") =>
        /\ st_already = "True"
        /\ pc = "st_done" /\ st_result = OK /\ posts = 0

\* C29: a group for which the query made by is_already_upgraded gives no
\* record is reported as already upgraded, whatever the constructor counted:
\* the stage returns OK with no trigger request and no poll; and
\* verify_complete on an empty job list returns OK when device_count is 0.
C29_EmptyQuery ==
    /\ st_online = 0 =>
        /\ st_already = "True"
        /\ pc = "st_done" /\ st_result = OK
        /\ posts = 0 /\ calls = 0 /\ st_downloaded = "none"
    /\ verify_complete(<<>>, 0) = OK

\* A stage whose group was empty at both queries returned.
C29_Witness ==
    /\ pc = "st_done" /\ device_count = 0 /\ st_online = 0
    /\ st_already = "True" /\ st_result = OK

\* ------------------------------------------------------- pre_post.init
\* C27: pre_post.init discards the snapshot file it finds, and when its login
\* succeeds it ends by returning OK, without a comparison, with a snapshot
\* file that holds the inventory captured during that call.
C27_FreshSnapshot ==
    /\ (ph_entry = "pre_post.init" /\ pc \in {"login_test", "login_try"}) =>
        ~isfile(snap_file)
    /\ (ph_entry = "pre_post.init" /\ pc = "ph_done" /\ client # None) =>
        /\ ph_result = OK
        /\ ~snapshot_exists
        /\ ld_outcome = "returned"
        /\ snap_file = WrittenFile(snapshot)
        /\ captured = snapshot

C30_Terminates ==
    <>(x > 0 /\ pc = "done" /\ result \in {OK, FAIL})

\* loop_for with a positive deadline returned FAIL after calls that raised.
C30_Witness ==
    /\ pc = "done" /\ x > 0 /\ result = FAIL
    /\ calls >= 2 /\ excSeen

====
